---- MODULE Spec2Model ----
(***************************************************************************)
(* Movie recommender (app.py): the artifact load, the memoized             *)
(* get_recommendations lookup over the similarity matrix, and the          *)
(* concurrent poster fetch (fetch_poster / fetch_posters).                 *)
(*                                                                         *)
(* Arrays, tables and frames are functions over 0..n-1, as in the source.  *)
(* Similarity scores are integer levels: the code only compares them.      *)
(***************************************************************************)
EXTENDS Integers, Sequences, FiniteSets, TLC

VARIABLES
    pc,            \* the script: "start" | "serving" | "fatal" ("idle": not run)
    error,         \* the exception that ended the script, or "none"
    artifact,      \* movie_data.pkl on disk
    movies,        \* the catalog table: row -> [title, movie_id]
    cosine_sim,    \* the similarity matrix: row -> column -> score
    movie_titles,  \* movies['title'].to_numpy()
    argsort_rank,  \* the order np.argsort of this build gives equal scores
    cache,         \* st.cache_data of get_recommendations: key -> frame
    last,          \* the last get_recommendations call and what it gave
    returned,      \* history: every <<title, frame>> a call has returned
    movie_ids,     \* fetch_posters: the ids it was called with
    fpc,           \* fetch_posters: "call" | "session" | "tasks" | "gather" | "exit" |
                   \* "returned" | "raised" ("idle": not called)
    session,       \* the aiohttp.ClientSession: "none" | "open" | "closed"
    sessions_opened, \* how many ClientSession objects the batch has made
    tasks,         \* position -> the fetch_poster coroutine/task of that position
    completion,    \* history: task positions in the order they finished
    posters,       \* the list gather gave, which fetch_posters returns
    fetch_error    \* the exception fetch_posters raised, or "none"

rec_vars == <<pc, error, artifact, movies, cosine_sim, movie_titles,
              argsort_rank, cache, last, returned>>
fetch_vars == <<movie_ids, fpc, session, sessions_opened, tasks, completion, posters,
                fetch_error>>
vars == <<pc, error, artifact, movies, cosine_sim, movie_titles,
          argsort_rank, cache, last, returned,
          movie_ids, fpc, session, sessions_opened, tasks, completion, posters,
          fetch_error>>

---------------------------------------------------------------------------
(* Bounds of the model *)

\* Catalogs and matrices of every shape up to this size, matching or not.
MaxSmall == 2
\* Similarity scores are the levels 0..MaxScore.
MaxScore == 2
\* Large catalogs have SliceStop, ..., SliceStop + MaxExtra - 1 movies.
MaxExtra == 2
\* fetch_posters is called with at most this many ids.
MaxIds == 2

(* Program constants *)

\* top_indices = np.argsort(sim_scores)[::-1][1:21]
SliceStart == 1
SliceStop == 21

Scores == 0..MaxScore
CatalogTitles == {"A", "B"}
QueryTitles == {"A", "B"}

---------------------------------------------------------------------------
(* Python / NumPy / pandas helpers, on functions over 0..n-1 *)

Size(a) == Cardinality(DOMAIN a)

Min(S) == CHOOSE x \in S : \A y \in S : x <= y

EmptyFrame == [p \in {} |-> [index |-> 0, title |-> "", movie_id |-> 0]]

\* np.argsort(row): the column indices by ascending score; equal scores in
\* the order of this build's sort (kind='quicksort' is not stable).
Before(row, j, k) ==
    \/ row[j] < row[k]
    \/ row[j] = row[k] /\ argsort_rank[j] < argsort_rank[k]

ArgSort(row) ==
    LET pos(j) == Cardinality({k \in DOMAIN row : Before(row, k, j)})
    IN  [p \in 0..(Size(row) - 1) |-> CHOOSE j \in DOMAIN row : pos(j) = p]

\* a[::-1]
Reversed(a) == [p \in 0..(Size(a) - 1) |-> a[Size(a) - 1 - p]]

\* a[start:stop] for 0 <= start <= stop
Slice(a, start, stop) ==
    LET lo == IF start < Size(a) THEN start ELSE Size(a)
        hi == IF stop < Size(a) THEN stop ELSE Size(a)
    IN  [p \in 0..(hi - lo - 1) |-> a[lo + p]]

\* np.argsort(sim_scores)[::-1][1:21]
TopIndicesUnbounded(sim_scores) ==
    Slice(Reversed(ArgSort(sim_scores)), SliceStart, Size(sim_scores))

TopIndices(sim_scores) ==
    Slice(Reversed(ArgSort(sim_scores)), SliceStart, SliceStop)

\* np.where(movie_titles == title)[0]
Where(title) == {i \in DOMAIN movie_titles : movie_titles[i] = title}

Raise(exc) == [exc |-> exc, val |-> EmptyFrame]
Return(val) == [exc |-> "none", val |-> val]

\* The try block of get_recommendations.
GetRecommendationsTry(title) ==
    IF Where(title) = {} THEN Raise("IndexError")          \* [0][0] of nothing
    ELSE LET idx == Min(Where(title)) IN
         IF idx \notin DOMAIN cosine_sim THEN Raise("IndexError")
         ELSE LET top_indices == TopIndices(cosine_sim[idx]) IN
              IF \E p \in DOMAIN top_indices : top_indices[p] \notin DOMAIN movies
              THEN Raise("IndexError")                     \* movies.iloc[...]
              ELSE Return([p \in DOMAIN top_indices |->
                              [index |-> top_indices[p],
                               title |-> movies[top_indices[p]].title,
                               movie_id |-> movies[top_indices[p]].movie_id]])

\* except IndexError
CatchesNothing(exc) == FALSE

Catches(exc) == exc = "IndexError"

\* get_recommendations without its cache.
GetRecommendationsBody(title) ==
    LET r == GetRecommendationsTry(title)
    IN  IF r.exc = "none" THEN r
        ELSE IF Catches(r.exc) THEN Return(EmptyFrame)
        ELSE r

\* @st.cache_data keys an entry by the call's arguments.
CacheKeyOfFunctionOnly(title) == "get_recommendations"

CacheKey(title) == title

NoCall == [called |-> FALSE, title |-> "", exc |-> "none", val |-> EmptyFrame, hit |-> FALSE]

---------------------------------------------------------------------------
(* The artifacts the script may find *)

\* The table with the given titles; ids are those of the rows.
Catalog(titles) == [i \in DOMAIN titles |-> [title |-> titles[i], movie_id |-> 10 + i]]

\* Row i is the profile v rotated by i: v[0] is every movie's similarity to
\* itself, v[d] its similarity to the movie d places on.
Circulant(R, C, v) == [i \in 0..(R - 1) |-> [j \in 0..(C - 1) |-> v[(j - i) % C]]]

Ok(m, sim) == [kind |-> "ok", movies |-> m, cosine_sim |-> sim]
NoTable == [i \in {} |-> [title |-> "", movie_id |-> 0]]
NoMatrix == [i \in {} |-> [j \in {} |-> 0]]
Missing == [kind |-> "missing", movies |-> NoTable, cosine_sim |-> NoMatrix]
Corrupt == [kind |-> "corrupt", movies |-> NoTable, cosine_sim |-> NoMatrix]

\* Every catalog of up to MaxSmall movies (titles may repeat; the first is
\* "A", the code treating all titles alike) with every circulant matrix of
\* up to MaxSmall rows and columns, of matching dimensions or not.
SmallArtifacts ==
    UNION { UNION { { Ok(Catalog(t), Circulant(R, C, v)) :
                        t \in {u \in [0..(L - 1) -> CatalogTitles] : L > 0 => u[0] = "A"},
                        R \in 0..MaxSmall,
                        v \in [0..(C - 1) -> Scores] } :
                    C \in 0..MaxSmall } :
            L \in 0..MaxSmall }

\* Catalogs of more than 20 other movies, of matching dimensions: "A" is one
\* movie (the first or the last), "B" all the others; the profile is flat
\* (all scores equal), rising or falling through the levels.
BigArtifacts ==
    UNION { { Ok(Catalog([i \in 0..(N - 1) |-> IF i = a THEN "A" ELSE "B"]),
                 Circulant(N, N, [d \in 0..(N - 1) |-> (s + b * d) % (MaxScore + 1)])) :
                a \in {0, N - 1}, s \in Scores, b \in {0, 1, MaxScore} } :
            N \in SliceStop..(SliceStop + MaxExtra - 1) }

Artifacts == {Missing, Corrupt} \cup SmallArtifacts \cup BigArtifacts

Columns(art) == IF Size(art.cosine_sim) = 0 THEN 0 ELSE Size(art.cosine_sim[0])

\* The orders a build's argsort may give equal scores (the sort is the same
\* function of its row on every call, but which one is the build's choice):
\* any order at all for a row of up to MaxSmall scores; by index, or against
\* it, for a longer row.
TieRanks(n) ==
    IF n <= MaxSmall
    THEN {r \in [0..(n - 1) -> 0..(n - 1)] : \A j, k \in 0..(n - 1) : r[j] = r[k] => j = k}
    ELSE {[j \in 0..(n - 1) |-> j], [j \in 0..(n - 1) |-> n - 1 - j]}

---------------------------------------------------------------------------
(* The script: load, then get_recommendations calls *)

\* No fetch_posters call is under way.
FetchIdle ==
    /\ movie_ids = [i \in {} |-> 0]
    /\ fpc = "idle"
    /\ session = "none"
    /\ sessions_opened = 0
    /\ tasks = [i \in {} |-> 0]
    /\ completion = <<>>
    /\ posters = [i \in {} |-> ""]
    /\ fetch_error = "none"

Init ==
    /\ pc = "start"
    /\ error = "none"
    /\ artifact \in Artifacts
    /\ movies = NoTable
    /\ cosine_sim = NoMatrix
    /\ movie_titles = [i \in {} |-> ""]
    /\ argsort_rank \in TieRanks(Columns(artifact))
    /\ cache = [k \in {} |-> EmptyFrame]
    /\ last = NoCall
    /\ returned = {}
    /\ FetchIdle

\* with open('movie_data.pkl', 'rb') as file: movies, cosine_sim = pickle.load(file)
\* movie_titles = movies['title'].to_numpy()
Load ==
    /\ pc = "start"
    /\ \/ /\ artifact.kind = "missing"
          /\ pc' = "fatal"
          /\ error' = "FileNotFoundError"
          /\ UNCHANGED <<movies, cosine_sim, movie_titles>>
       \/ /\ artifact.kind = "corrupt"
          /\ pc' = "fatal"
          /\ error' = "UnpicklingError"
          /\ UNCHANGED <<movies, cosine_sim, movie_titles>>
       \/ /\ artifact.kind = "ok"
          /\ pc' = "serving"
          /\ movies' = artifact.movies
          /\ cosine_sim' = artifact.cosine_sim
          /\ movie_titles' = [i \in DOMAIN artifact.movies |-> artifact.movies[i].title]
          /\ UNCHANGED error
    /\ UNCHANGED <<artifact, argsort_rank, cache, last, returned>>
    /\ UNCHANGED fetch_vars

\* recommendations = get_recommendations(title), through @st.cache_data
GetRecommendations(title) ==
    /\ pc = "serving"
    /\ LET key == CacheKey(title) IN
       \/ /\ key \in DOMAIN cache
          /\ last' = [called |-> TRUE, title |-> title, exc |-> "none",
                      val |-> cache[key], hit |-> TRUE]
          /\ returned' = returned \cup {<<title, cache[key]>>}
          /\ UNCHANGED cache
       \/ /\ key \notin DOMAIN cache
          /\ LET r == GetRecommendationsBody(title) IN
             /\ last' = [called |-> TRUE, title |-> title, exc |-> r.exc,
                         val |-> r.val, hit |-> FALSE]
             /\ IF r.exc = "none"
                THEN /\ cache' = [k \in DOMAIN cache \cup {key} |->
                                    IF k = key THEN r.val ELSE cache[k]]
                     /\ returned' = returned \cup {<<title, r.val>>}
                ELSE UNCHANGED <<cache, returned>>
    /\ UNCHANGED <<pc, error, artifact, movies, cosine_sim, movie_titles, argsort_rank>>
    /\ UNCHANGED fetch_vars

Next ==
    \/ Load
    \/ \E title \in QueryTitles : GetRecommendations(title)

Spec == Init /\ [][Next]_vars

---------------------------------------------------------------------------
(* fetch_poster: one request, and what it resolves to *)

MovieIds == {5, 6}

\* api_key = '7b995d3c6fd91a2284b4ad8cb390c7b8'
ApiKey == "7b995d3c6fd91a2284b4ad8cb390c7b8"

Placeholder == "https://via.placeholder.com/150"

ImageBase == "https://image.tmdb.org/t/p/w500"

\* url = f"https://api.themoviedb.org/3/movie/{movie_id}?api_key={api_key}"
RequestUrl(movie_id, api_key) ==
    "https://api.themoviedb.org/3/movie/" \o ToString(movie_id) \o "?api_key=" \o api_key

\* The poster the service holds for a movie.
ServicePosterPath(movie_id) == IF movie_id = 6 THEN "/x.jpg" ELSE "/v.jpg"

\* data.get('poster_path', None): None (the key is missing, or null) or a string.
None == [has |-> FALSE, str |-> ""]
Str(s) == [has |-> TRUE, str |-> s]

Http(status, body, poster_path) ==
    [kind |-> "http", status |-> status, body |-> body, poster_path |-> poster_path]

\* Everything session.get(url, timeout=5) may end in for a movie: a response
\* (its status; a JSON body with, without, or with an empty poster_path, or
\* a body that is no JSON), a network error, or the timeout.
Responses(movie_id) ==
    { Http(200, "json", Str(ServicePosterPath(movie_id))),
      Http(200, "json", Str("")),
      Http(200, "json", None),
      Http(200, "text", None),
      Http(404, "json", Str(ServicePosterPath(movie_id))),
      [kind |-> "network_error", status |-> 0, body |-> "", poster_path |-> None],
      [kind |-> "timeout", status |-> 0, body |-> "", poster_path |-> None] }

NoResponse == [kind |-> "none", status |-> 0, body |-> "", poster_path |-> None]

\* The response a request on a closed session ends in.
SessionClosed == [kind |-> "session_closed", status |-> 0, body |-> "", poster_path |-> None]

Raised(exc) == [exc |-> exc, url |-> ""]
Resolved(url) == [exc |-> "none", url |-> url]

\* if poster_path:
Truthy(poster_path) == poster_path.has /\ poster_path.str # ""

\* f"...{poster_path}"
Format(poster_path) == IF poster_path.has THEN poster_path.str ELSE "None"

\* The try block of fetch_poster, without its "if poster_path" test.
FetchPosterTryNoPathTest(resp) ==
    IF resp.kind = "session_closed" THEN Raised("RuntimeError")
    ELSE IF resp.kind = "network_error" THEN Raised("ClientError")
    ELSE IF resp.kind = "timeout" THEN Raised("TimeoutError")
    ELSE IF resp.status = 200
         THEN IF resp.body # "json" THEN Raised("ContentTypeError")
              ELSE Resolved(ImageBase \o Format(resp.poster_path))
         ELSE Resolved(Placeholder)

\* The try block of fetch_poster, from session.get on.
FetchPosterTry(resp) ==
    IF resp.kind = "session_closed" THEN Raised("RuntimeError")
    ELSE IF resp.kind = "network_error" THEN Raised("ClientError")
    ELSE IF resp.kind = "timeout" THEN Raised("TimeoutError")
    ELSE IF resp.status = 200
         THEN IF resp.body # "json" THEN Raised("ContentTypeError")   \* response.json()
              ELSE IF Truthy(resp.poster_path)
                   THEN Resolved(ImageBase \o Format(resp.poster_path))
                   ELSE Resolved(Placeholder)
         ELSE Resolved(Placeholder)

\* except Exception as e
CatchesException(exc) == TRUE

\* What fetch_poster gives its caller for the response to its request.
FetchPosterResult(resp) ==
    LET r == FetchPosterTry(resp)
    IN  IF r.exc # "none" /\ CatchesException(r.exc) THEN Resolved(Placeholder) ELSE r

---------------------------------------------------------------------------
(* fetch_posters: the batch *)

\* fetch_poster(session, movie_id, api_key), a coroutine not yet run.
\* state: "coro" | "ready" | "sleep" | "get" | "done"
Coroutine(sess, movie_id) ==
    [state |-> "coro", session |-> sess, movie_id |-> movie_id, url |-> "",
     sent_on |-> "none", response |-> NoResponse, exc |-> "none", result |-> ""]

AllDone == \A i \in DOMAIN tasks : tasks[i].state = "done"

SomeRaised == \E i \in DOMAIN tasks : tasks[i].state = "done" /\ tasks[i].exc # "none"

\* The pre-request delay as one queue: a task waits for those before it.
WakeReadyInTurn(i) ==
    /\ tasks[i].state = "sleep"
    /\ \A j \in DOMAIN tasks : j < i => tasks[j].state \in {"get", "done"}

\* await asyncio.sleep(0.5) is over for task i.
WakeReady(i) == tasks[i].state = "sleep"

\* A join that ends with the first task to finish.
GatherReadyFirst == DOMAIN tasks = {} \/ \E i \in DOMAIN tasks : tasks[i].state = "done"

\* await asyncio.gather(*tasks) is over: every task is done, or one raised.
GatherReady == AllDone \/ SomeRaised

\* Results in the order the tasks finished.
GatherResultByArrival == [p \in 0..(Len(completion) - 1) |-> tasks[completion[p + 1]].result]

\* The list asyncio.gather gives: the tasks' results by position.
GatherResult == [i \in DOMAIN tasks |-> tasks[i].result]

\* A session left as it is when the block is left.
SessionLeftOpen == session

\* The session after the "async with" block is left.
SessionAfterExit == "closed"

FetchInit ==
    /\ pc = "idle"
    /\ error = "none"
    /\ artifact = Missing
    /\ movies = NoTable
    /\ cosine_sim = NoMatrix
    /\ movie_titles = [i \in {} |-> ""]
    /\ argsort_rank = [j \in {} |-> 0]
    /\ cache = [k \in {} |-> EmptyFrame]
    /\ last = NoCall
    /\ returned = {}
    /\ movie_ids \in UNION { [0..(n - 1) -> MovieIds] : n \in 0..MaxIds }
    /\ fpc = "call"
    /\ session = "none"
    /\ sessions_opened = 0
    /\ tasks = [i \in {} |-> 0]
    /\ completion = <<>>
    /\ posters = [i \in {} |-> ""]
    /\ fetch_error = "none"

\* async with aiohttp.ClientSession() as session:
OpenSession ==
    /\ fpc = "call"
    /\ fpc' = "session"
    /\ session' = "open"
    /\ sessions_opened' = sessions_opened + 1
    /\ UNCHANGED <<movie_ids, tasks, completion, posters, fetch_error>>
    /\ UNCHANGED rec_vars

\* tasks = [fetch_poster(session, movie_id, api_key) for movie_id in movie_ids]
MakeTasks ==
    /\ fpc = "session"
    /\ fpc' = "tasks"
    /\ tasks' = [i \in DOMAIN movie_ids |-> Coroutine(sessions_opened, movie_ids[i])]
    /\ UNCHANGED <<movie_ids, session, sessions_opened, completion, posters, fetch_error>>
    /\ UNCHANGED rec_vars

\* asyncio.gather(*tasks): every coroutine becomes a task of the loop.
Gather ==
    /\ fpc = "tasks"
    /\ fpc' = "gather"
    /\ tasks' = [i \in DOMAIN tasks |-> [tasks[i] EXCEPT !.state = "ready"]]
    /\ UNCHANGED <<movie_ids, session, sessions_opened, completion, posters, fetch_error>>
    /\ UNCHANGED rec_vars

\* Task i runs to its first suspension: the url, then asyncio.sleep(0.5).
TaskStart(i) ==
    /\ tasks[i].state = "ready"
    /\ tasks' = [tasks EXCEPT ![i] = [@ EXCEPT !.state = "sleep",
                                                !.url = RequestUrl(tasks[i].movie_id, ApiKey)]]
    /\ UNCHANGED <<movie_ids, fpc, session, sessions_opened, completion, posters, fetch_error>>
    /\ UNCHANGED rec_vars

\* Task i wakes and issues session.get(url, timeout=5); on a session that is
\* not open the call raises at once, and the task ends in its except branch.
TaskWake(i) ==
    /\ WakeReady(i)
    /\ IF session = "open"
       THEN /\ tasks' = [tasks EXCEPT ![i] = [@ EXCEPT !.state = "get", !.sent_on = session]]
            /\ UNCHANGED completion
       ELSE /\ tasks' = [tasks EXCEPT ![i] =
                            [@ EXCEPT !.state = "done", !.sent_on = session,
                                      !.response = SessionClosed,
                                      !.exc = FetchPosterResult(SessionClosed).exc,
                                      !.result = FetchPosterResult(SessionClosed).url]]
            /\ completion' = Append(completion, i)
    /\ UNCHANGED <<movie_ids, fpc, session, sessions_opened, posters, fetch_error>>
    /\ UNCHANGED rec_vars

\* The request of task i ends in resp, and the task in what fetch_poster
\* makes of it.
TaskRespond(i, resp) ==
    /\ tasks[i].state = "get"
    /\ tasks' = [tasks EXCEPT ![i] = [@ EXCEPT !.state = "done", !.response = resp,
                                                !.exc = FetchPosterResult(resp).exc,
                                                !.result = FetchPosterResult(resp).url]]
    /\ completion' = Append(completion, i)
    /\ UNCHANGED <<movie_ids, fpc, session, sessions_opened, posters, fetch_error>>
    /\ UNCHANGED rec_vars

\* await asyncio.gather(*tasks) resumes fetch_posters: with the list of the
\* results, or with the exception of a task that raised.
Join ==
    /\ fpc = "gather"
    /\ GatherReady
    /\ fpc' = "exit"
    /\ IF SomeRaised
       THEN /\ fetch_error' = (CHOOSE e \in {tasks[i].exc : i \in DOMAIN tasks} : e # "none")
            /\ UNCHANGED posters
       ELSE /\ posters' = GatherResult
            /\ UNCHANGED fetch_error
    /\ UNCHANGED <<movie_ids, session, sessions_opened, tasks, completion>>
    /\ UNCHANGED rec_vars

\* The "async with" block is left and fetch_posters returns (or raises).
Exit ==
    /\ fpc = "exit"
    /\ fpc' = IF fetch_error = "none" THEN "returned" ELSE "raised"
    /\ session' = SessionAfterExit
    /\ UNCHANGED <<movie_ids, sessions_opened, tasks, completion, posters, fetch_error>>
    /\ UNCHANGED rec_vars

FetchNext ==
    \/ OpenSession
    \/ MakeTasks
    \/ Gather
    \/ \E i \in DOMAIN tasks : TaskStart(i)
    \/ \E i \in DOMAIN tasks : TaskWake(i)
    \/ \E i \in DOMAIN tasks : \E resp \in Responses(tasks[i].movie_id) : TaskRespond(i, resp)
    \/ Join
    \/ Exit

FetchSpec == FetchInit /\ [][FetchNext]_vars

\* The loop runs every task that is ready, every sleep ends, and every
\* request ends within its timeout.
FairFetchSpec == FetchSpec /\ WF_vars(FetchNext)

---------------------------------------------------------------------------
(* Claims about the load and get_recommendations *)

DimsAgree(art) ==
    /\ Size(art.cosine_sim) = Size(art.movies)
    /\ \A i \in DOMAIN art.cosine_sim : Size(art.cosine_sim[i]) = Size(art.movies)

Present(title) == \E i \in DOMAIN movies : movies[i].title = title

\* The catalog row a query for the title is about: the first with that title.
QueriedIndex(title) == Min({i \in DOMAIN movies : movies[i].title = title})

\* The score the queried row gives the p-th entry of the last result.
ScoreOfEntry(p) == cosine_sim[QueriedIndex(last.title)][last.val[p].index]

\* C3: with a catalog and a matrix of matching dimensions, no entry of
\* get_recommendations(title), for a title of the catalog, is the queried
\* movie itself, whatever the other movies' scores are.
C3_NeverRecommendsQueried ==
    (last.called /\ DimsAgree(artifact) /\ Present(last.title)) =>
        \A p \in DOMAIN last.val : last.val[p].index # QueriedIndex(last.title)

\* C4: for a title of the catalog, get_recommendations returns at most 20
\* entries, and their scores in the queried row (the row of the first index
\* with that title) never increase from one entry to the next.
C4_AtMostTwentyByScore ==
    (last.called /\ Present(last.title)) =>
        /\ Size(last.val) <= 20
        /\ \A p \in DOMAIN last.val :
              (p + 1) \in DOMAIN last.val => ScoreOfEntry(p) >= ScoreOfEntry(p + 1)

\* C4's case: more than 20 other movies, 20 returned, and a score that drops.
C4_Witness ==
    /\ last.called /\ ~last.hit /\ Present(last.title)
    /\ Size(movies) > 21
    /\ Size(last.val) = 20
    /\ \E p \in DOMAIN last.val :
          (p + 1) \in DOMAIN last.val /\ ScoreOfEntry(p) > ScoreOfEntry(p + 1)

\* C5: for a title absent from the catalog, get_recommendations returns an
\* empty frame and raises nothing, and the catalog and the matrix are as
\* they were loaded.
C5_AbsentTitleEmpty ==
    (last.called /\ ~Present(last.title)) =>
        /\ last.exc = "none"
        /\ last.val = EmptyFrame
        /\ movies = artifact.movies
        /\ cosine_sim = artifact.cosine_sim

\* C5's case: a catalog with movies, none of them the one asked for.
C5_Witness ==
    /\ last.called /\ ~last.hit /\ ~Present(last.title)
    /\ Size(movies) > 0
    /\ last.val = EmptyFrame

\* C6: when the artifact is missing, corrupt, or holds a catalog whose length
\* differs from the matrix's rows or columns, the script never gets to serve
\* a recommendation request.
C6_BadArtifactNeverServes ==
    (artifact.kind # "ok" \/ ~DimsAgree(artifact)) =>
        (pc # "serving" /\ ~last.called)

\* C7: every call for a title returns what every earlier call for that title
\* returned, and a result served from the cache is the one the function
\* computes for that very title.
C7_SameTitleSameResult ==
    /\ \A x \in returned : \A y \in returned : x[1] = y[1] => x[2] = y[2]
    /\ (last.called /\ last.hit) => last.val = GetRecommendationsBody(last.title).val

\* C7's case: a cache hit, after calls for two titles with different results.
C7_Witness ==
    /\ last.called /\ last.hit
    /\ Size(last.val) > 0
    /\ \E x \in returned : x[1] # last.title /\ x[2] # last.val

---------------------------------------------------------------------------
(* Claims about fetch_poster and fetch_posters *)

Started(i) == tasks[i].state \in {"ready", "sleep", "get", "done"}

\* C1: whatever the ids (none, repeated), the requests' outcomes and the
\* order the tasks finish in, fetch_posters returns a list as long as the
\* ids whose element at position i is the result of the task started for
\* the id at position i.
C1_PostersByPosition ==
    /\ fpc # "raised"
    /\ fpc = "returned" =>
          /\ Size(posters) = Size(movie_ids)
          /\ \A i \in DOMAIN movie_ids :
                /\ tasks[i].movie_id = movie_ids[i]
                /\ tasks[i].url = RequestUrl(movie_ids[i], ApiKey)
                /\ posters[i] = tasks[i].result

\* C1's case: the second task finished first, with a different result.
C1_Witness ==
    /\ fpc = "returned"
    /\ Size(movie_ids) >= 2
    /\ completion[1] = 1 /\ completion[2] = 0
    /\ posters[0] # posters[1]
    /\ posters[0] # "https://via.placeholder.com/150"
    /\ posters[1] # "https://via.placeholder.com/150"

\* C2: fetch_poster resolves to 'https://image.tmdb.org/t/p/w500' +
\* poster_path exactly when the response has status 200, a JSON body and a
\* non-empty poster_path, to the placeholder URL in every other outcome, and
\* raises in none, so that no fetch aborts the batch.
C2_PosterOrPlaceholder ==
    /\ fetch_error = "none"
    /\ \A i \in DOMAIN tasks :
          tasks[i].state = "done" =>
             LET r == tasks[i].response
                 good == /\ r.kind = "http" /\ r.status = 200 /\ r.body = "json"
                         /\ r.poster_path.has /\ r.poster_path.str # ""
             IN  /\ tasks[i].exc = "none"
                 /\ good => tasks[i].result =
                               "https://image.tmdb.org/t/p/w500" \o r.poster_path.str
                 /\ ~good => tasks[i].result = "https://via.placeholder.com/150"

\* C2's case: in one batch that returned, a poster found, a response with no
\* poster_path, and a request that failed.
C2_Witness ==
    /\ fpc = "returned"
    /\ \E i \in DOMAIN tasks : tasks[i].result = "https://image.tmdb.org/t/p/w500/v.jpg"
    /\ \E i \in DOMAIN tasks :
          /\ tasks[i].response.kind \in {"network_error", "timeout"}
          /\ tasks[i].result = "https://via.placeholder.com/150"

AllResolved == fpc = "gather" /\ DOMAIN tasks = DOMAIN movie_ids /\ AllDone

\* C8: once any task of the batch has run, every task of the batch has been
\* started; the batch is past its join only when every task is done; and
\* once every task is done the batch returns.
C8_FanOutFanIn ==
    /\ []((\E i \in DOMAIN tasks : tasks[i].state \in {"sleep", "get", "done"}) =>
             (DOMAIN tasks = DOMAIN movie_ids /\ \A j \in DOMAIN tasks : Started(j)))
    /\ [](fpc \in {"exit", "returned", "raised"} =>
             (DOMAIN tasks = DOMAIN movie_ids /\ AllDone))
    /\ (AllResolved ~> fpc = "returned")

\* C8's case: a batch of several tasks that returned, the last one started
\* at the first position.
C8_Witness ==
    /\ fpc = "returned"
    /\ Size(tasks) >= 2
    /\ AllDone
    /\ completion[Len(completion)] = 0

\* C9: a task in its delay can always go on to its request, a task waiting
\* for its response can always get any response, whatever the other tasks
\* are doing or have ended in, and a finished task holds what fetch_poster
\* makes of its own response.
C9_TasksIndependent ==
    \A i \in DOMAIN tasks :
        /\ tasks[i].state = "ready" => ENABLED TaskStart(i)
        /\ tasks[i].state = "sleep" => ENABLED TaskWake(i)
        /\ tasks[i].state = "get" =>
              \A resp \in Responses(tasks[i].movie_id) : ENABLED TaskRespond(i, resp)
        /\ tasks[i].state = "done" =>
              /\ tasks[i].response \in Responses(tasks[i].movie_id)
              /\ tasks[i].result = FetchPosterResult(tasks[i].response).url

\* C9's case: id 5 timed out first, id 6 then got its poster.
C9_Witness ==
    /\ fpc = "returned"
    /\ Size(movie_ids) = 2 /\ movie_ids[0] = 5 /\ movie_ids[1] = 6
    /\ tasks[0].response.kind = "timeout"
    /\ completion[1] = 0
    /\ posters[0] = "https://via.placeholder.com/150"
    /\ posters[1] = "https://image.tmdb.org/t/p/w500/x.jpg"

\* C10: a batch opens one session, which every task of it is given; a
\* request is only ever issued on the open session; the session is open
\* while the batch runs and closed when it has ended, and is closed only
\* when every task is done.
C10_OneSessionPerBatch ==
    /\ sessions_opened <= 1
    /\ fpc # "call" => sessions_opened = 1
    /\ \A i \in DOMAIN tasks :
          /\ tasks[i].session = sessions_opened
          /\ tasks[i].state \in {"get", "done"} => tasks[i].sent_on = "open"
    /\ fpc \in {"session", "tasks", "gather", "exit"} => session = "open"
    /\ fpc \in {"returned", "raised"} => session = "closed"
    /\ session = "closed" => (DOMAIN tasks = DOMAIN movie_ids /\ AllDone)

\* C10's case: a batch of several tasks, all of which failed, has ended.
C10_Witness ==
    /\ fpc = "returned"
    /\ session = "closed"
    /\ Size(tasks) >= 2
    /\ \A i \in DOMAIN tasks : tasks[i].response.kind # "http"

====
